---------------------------- MODULE Spec2Model ----------------------------
(* Verification model of node-json2video: the POST /create-video intake  *)
(* (routes), the Bull queue 'video processing' with its retry policy,    *)
(* the createVideo worker (createVideoTask) and the FFmpeg filter chain  *)
(* it composes.                                                          *)
EXTENDS Integers, Sequences, FiniteSets, TLC

VARIABLES
    req,        \* POST /create-video handlers: request id -> handler state
    cacheFiles, \* names of the files present in config.cacheDir
    jobs,       \* the Bull queue's job records, indexed by job id
    wait,       \* Bull's wait list (FIFO) of job ids
    worker,     \* the createVideo processor (concurrency 1)
    fdata,      \* createVideoTask alone: the VideoProcessingData it is called with
    fcmd,       \* createVideoTask alone: <<ffmpegCommand>> once spawned, <<>> before
    fpc         \* createVideoTask alone: "start" | "spawned" | "threw"

pvars == <<req, cacheFiles, jobs, wait, worker>>

fvars == <<fdata, fcmd, fpc>>

vars == <<req, cacheFiles, jobs, wait, worker, fdata, fcmd, fpc>>

(***************************************************************************)
(* Bounds of the model (not program constants).                            *)
(***************************************************************************)
MaxDim == 3

MaxReq == 2

NumNames == 2

(***************************************************************************)
(* Small helpers standing for JavaScript built-ins.                        *)
(***************************************************************************)
MathMin(a, b) == IF a < b THEN a ELSE b

MathAbs(a) == IF a < 0 THEN -a ELSE a

\* Math.floor(n / 2) for an integer n (\div rounds down)
MathFloorHalf(n) == n \div 2

Digit(k) ==
    CASE k = 0 -> "0" [] k = 1 -> "1" [] k = 2 -> "2" [] k = 3 -> "3"
      [] k = 4 -> "4" [] k = 5 -> "5" [] k = 6 -> "6" [] k = 7 -> "7"
      [] k = 8 -> "8" [] k = 9 -> "9"

RECURSIVE toString(_)
\* Number.prototype.toString for a non-negative integer: its decimal digits
toString(n) == IF n < 10 THEN <<Digit(n)>> ELSE toString(n \div 10) \o <<Digit(n % 10)>>

(***************************************************************************)
(* Filter composition of createVideoTask.  A chain is a sequence of        *)
(* stages; a stage is a record whose kind names the FFmpeg filter.         *)
(***************************************************************************)
DimsDiffer(d) ==
    d.input_width # d.output_width \/ d.input_height # d.output_height

\* the output width, whatever the input width
cropWidthIsOutput(d) == d.output_width

cropWidth(d) == MathMin(d.input_width, d.output_width)

cropHeight(d) == MathMin(d.input_height, d.output_height)

\* the whole margin instead of half of it
cropXNotCentered(d) == d.input_width - cropWidth(d)

cropX(d) == MathFloorHalf(d.input_width - cropWidth(d))

cropY(d) == MathFloorHalf(d.input_height - cropHeight(d))

cropFilter(d) ==
    IF d.crop /\ DimsDiffer(d)
    THEN << [kind |-> "crop", w |-> cropWidth(d), h |-> cropHeight(d),
             x |-> cropX(d), y |-> cropY(d)] >>
    ELSE << >>

\* pad whenever the dimensions differ, crop or not
padFilterIgnoresCrop(d) ==
    IF DimsDiffer(d)
    THEN << [kind |-> "scalefit", bw |-> d.output_width, bh |-> d.output_height],
            [kind |-> "scaledecrease", w |-> d.output_width, h |-> d.output_height],
            [kind |-> "pad", w |-> d.output_width, h |-> d.output_height,
             xexpr |-> "(ow-iw)/2", yexpr |-> "(oh-ih)/2"] >>
    ELSE << >>

\* pad whenever crop is false, equal dimensions or not
padFilterUnguarded(d) ==
    IF ~d.crop
    THEN << [kind |-> "scalefit", bw |-> d.output_width, bh |-> d.output_height],
            [kind |-> "scaledecrease", w |-> d.output_width, h |-> d.output_height],
            [kind |-> "pad", w |-> d.output_width, h |-> d.output_height,
             xexpr |-> "(ow-iw)/2", yexpr |-> "(oh-ih)/2"] >>
    ELSE << >>

\* scale=w=min(OW/iw\,OH/ih)*iw:h=-2 , scale=OW:OH:force_original_aspect_ratio=decrease ,
\* pad=OW:OH:(ow-iw)/2:(oh-ih)/2
padFilter(d) ==
    IF ~d.crop /\ DimsDiffer(d)
    THEN << [kind |-> "scalefit", bw |-> d.output_width, bh |-> d.output_height],
            [kind |-> "scaledecrease", w |-> d.output_width, h |-> d.output_height],
            [kind |-> "pad", w |-> d.output_width, h |-> d.output_height,
             xexpr |-> "(ow-iw)/2", yexpr |-> "(oh-ih)/2"] >>
    ELSE << >>

\* maxZoomRate = 0.1, kept as the fraction 1/10
maxZoomRateNum == 1

maxZoomRateDen == 10

\* normalizedZoom = (zoom / 100) * maxZoomRate, kept as a fraction num/den
normalizedZoom(d) ==
    [num |-> d.zoom * maxZoomRateNum, den |-> 100 * maxZoomRateDen]

\* zoompan=z='min(zoom+R,2)':d=1  or  zoompan=z='max(zoom-R,1)':d=1
zoomFilter(d) ==
    IF d.zoom # 0
    THEN IF d.zoom > 0
         THEN << [kind |-> "zoompan", fn |-> "min", sign |-> 1,
                  rate |-> normalizedZoom(d), limit |-> 2, frames |-> 1] >>
         ELSE << [kind |-> "zoompan", fn |-> "max", sign |-> -1,
                  rate |-> [num |-> MathAbs(normalizedZoom(d).num),
                            den |-> normalizedZoom(d).den],
                  limit |-> 1, frames |-> 1] >>
    ELSE << >>

\* the -vf argument: `format=yuv420p${cropFilter}${padFilter},scale=OW:OH`
vfChain(d) ==
    << [kind |-> "format", pix |-> "yuv420p"] >>
        \o cropFilter(d) \o padFilter(d)
        \o << [kind |-> "scale", w |-> d.output_width, h |-> d.output_height] >>

ffmpegCommand(d) ==
    [loop    |-> "1",
     input   |-> d.cached_input_file,
     vf      |-> vfChain(d),
     t       |-> toString(d.duration),
     pix_fmt |-> "yuv420p",
     r       |-> toString(d.framerate),
     output  |-> d.output_file]

\* the guard looks at the output dimensions only
DimsGuardOutputOnly(d) == d.output_width <= 0 \/ d.output_height <= 0

\* the guard at the head of createVideoTask
DimsInvalid(d) ==
    \/ d.input_width <= 0
    \/ d.input_height <= 0
    \/ d.output_width <= 0
    \/ d.output_height <= 0


(***************************************************************************)
(* Configuration (config/index.ts defaults).                               *)
(***************************************************************************)
allowedDomains == {"example.com", "trusted.com"}

\* Object.values(config.allowedIPs).flat()
allowedIPs ==
    {"localhost",
     "54.209.79.175", "54.80.47.193", "54.161.178.114",
     "34.254.1.9", "52.31.156.93", "52.50.32.186",
     "54.75.157.176", "54.78.149.203", "52.18.144.195"}

cacheDir == "cache"

moviesDir == "movies"

(***************************************************************************)
(* Requests.  A URL is kept in parsed form: whether the text is a URI at   *)
(* all, its scheme and its hostname; an absent webhook_url is NoUrl.       *)
(* A record_id is the sequence of its characters.                          *)
(***************************************************************************)
Url(s, h) == [present |-> TRUE, uri |-> TRUE, scheme |-> s, hostname |-> h]

NotAUri == [present |-> TRUE, uri |-> FALSE, scheme |-> "", hostname |-> ""]

NoUrl == [present |-> FALSE, uri |-> FALSE, scheme |-> "", hostname |-> ""]

AlnumChars ==
    {"a", "b", "d", "i", "r", "A", "Z", "0", "1", "9"}

\* any non-empty string passes
JoiAnyString(str) == Len(str) > 0

\* Joi.string().alphanum(): non-empty, only [a-zA-Z0-9]
JoiAlphanum(str) ==
    Len(str) > 0 /\ \A i \in 1..Len(str) : str[i] \in AlnumChars

\* Joi.string().uri()
JoiUri(u) == u.present /\ u.uri

\* videoRequestSchema, key by key in declaration order; the first key that
\* fails is the one Joi reports (abortEarly)
SchemaViolations(data) ==
    << <<"record_id",     ~JoiAlphanum(data.record_id)>>,
       <<"input_url",     ~JoiUri(data.input_url)>>,
       <<"webhook_url",   data.webhook_url.present /\ ~JoiUri(data.webhook_url)>>,
       <<"framerate",     ~(data.framerate > 0)>>,
       <<"duration",      ~(data.duration > 0 /\ data.duration <= 60)>>,
       <<"zoom",          ~(data.zoom >= -100 /\ data.zoom <= 100)>>,
       <<"output_width",  ~(data.output_width > 0)>>,
       <<"output_height", ~(data.output_height > 0)>> >>

validateJson(data) ==
    LET v == SchemaViolations(data)
        bad == {i \in 1..Len(v) : v[i][2]}
    IN  IF bad # {}
        THEN [isValid |-> FALSE,
              error   |-> v[CHOOSE i \in bad : \A k \in bad : i <= k][1]]
        ELSE [isValid |-> TRUE, error |-> ""]

isValidUrl(u) ==
    IF ~u.uri
    THEN FALSE                                   \* new URL(url) throws
    ELSE IF u.scheme \notin {"http", "https"}
    THEN FALSE
    ELSE IF u.hostname \notin allowedIPs /\ u.hostname \notin allowedDomains
    THEN FALSE
    ELSE TRUE

GoodBody ==
    [record_id |-> <<"r", "1">>, input_url |-> Url("https", "example.com"),
     webhook_url |-> NoUrl, framerate |-> 30, duration |-> 5, cache |-> FALSE,
     zoom |-> 0, crop |-> FALSE, output_width |-> 2, output_height |-> 2]

\* The request bodies the intake is exercised with: valid ones (with and
\* without webhook, crop, zoom) and one violation of each kind of check.
Bodies ==
    { GoodBody,
      [GoodBody EXCEPT !.webhook_url = Url("http", "localhost"),
                       !.crop = TRUE, !.zoom = 50],
      [GoodBody EXCEPT !.record_id = <<"b", "a", "d", " ", "i", "d", "!">>],
      [GoodBody EXCEPT !.duration = 61,
                       !.input_url = Url("https", "evil.test")],
      [GoodBody EXCEPT !.input_url = Url("https", "evil.test")],
      [GoodBody EXCEPT !.webhook_url = Url("ftp", "example.com")],
      [GoodBody EXCEPT !.zoom = 150],
      [GoodBody EXCEPT !.zoom = -101],
      [GoodBody EXCEPT !.duration = 61],
      [GoodBody EXCEPT !.duration = 0],
      [GoodBody EXCEPT !.framerate = 0],
      [GoodBody EXCEPT !.output_width = 0],
      [GoodBody EXCEPT !.output_height = -1],
      [GoodBody EXCEPT !.record_id = << >>],
      [GoodBody EXCEPT !.input_url = NotAUri,
                       !.webhook_url = Url("https", "evil.test")],
      [GoodBody EXCEPT !.input_url = Url("ftp", "example.com")],
      [GoodBody EXCEPT !.webhook_url = Url("https", "evil.test")] }


(***************************************************************************)
(* POST /create-video.  Each handler is an async function: one action per  *)
(* stretch of code between two awaits.                                     *)
(***************************************************************************)
Requests == 1..MaxReq

\* generateRandomFilename(): a random name; equal draws are possible
Names == 1..NumNames

\* what ffprobe can report for stream v:0 of a fixture
ProbeDims == { <<0, 2>>, <<3, 2>> }

ContentTypes == {"application/json", "image/png", "none"}

NewRequest(b) ==
    [pc |-> "new", body |-> b, status |-> 0, error |-> "",
     dl |-> "none", probe |-> "none",
     cachedInputFile |-> 0, inputWidth |-> 0, inputHeight |-> 0,
     filename |-> 0, jobId |-> 0, responses |-> 0, payload |-> << >>]

\* res.status(s).json({ error: e }); return
Respond(r, s, e) ==
    [req EXCEPT ![r].pc = "done", ![r].status = s, ![r].error = e,
                ![r].responses = @ + 1]

\* the checks without the one of webhook_url
SkipsWebhookCheck(data) ==
    IF ~validateJson(data).isValid
    THEN "Invalid input data"
    ELSE IF ~isValidUrl(data.input_url)
    THEN "Invalid input URL"
    ELSE ""

\* a body that was seen before is turned down
RequestErrorRemembers(data) ==
    IF \E q \in Requests : req[q].pc # "new" /\ req[q].body = data
    THEN "Invalid input data"
    ELSE IF ~validateJson(data).isValid
    THEN "Invalid input data"
    ELSE IF ~isValidUrl(data.input_url)
    THEN "Invalid input URL"
    ELSE IF data.webhook_url.present /\ ~isValidUrl(data.webhook_url)
    THEN "Invalid webhook URL"
    ELSE ""

\* the URLs are checked before the schema
UrlCheckedFirst(data) ==
    IF ~isValidUrl(data.input_url)
    THEN "Invalid input URL"
    ELSE IF data.webhook_url.present /\ ~isValidUrl(data.webhook_url)
    THEN "Invalid webhook URL"
    ELSE IF ~validateJson(data).isValid
    THEN "Invalid input data"
    ELSE ""

\* the checks at the head of the handler, in the order of the code: the first
\* one that fails decides the error text; "" when all pass
RequestError(data) ==
    IF ~validateJson(data).isValid
    THEN "Invalid input data"
    ELSE IF ~isValidUrl(data.input_url)
    THEN "Invalid input URL"
    ELSE IF data.webhook_url.present /\ ~isValidUrl(data.webhook_url)
    THEN "Invalid webhook URL"
    ELSE ""

\* validateJson, isValidUrl(input_url), isValidUrl(webhook_url), then axios.get
\* (requests are numbered in their order of arrival)
Receive(r) ==
    /\ req[r].pc = "new"
    /\ \A q \in Requests : q < r => req[q].pc # "new"
    /\ req' = IF RequestError(req[r].body) # ""
              THEN Respond(r, 400, RequestError(req[r].body))
              ELSE [req EXCEPT ![r].pc = "download"]
    /\ UNCHANGED <<cacheFiles, jobs, wait, worker, fvars>>

\* axios.get rejects (timeout, network error, error status): inner catch
DownloadRejects(r) ==
    /\ req[r].pc = "download"
    /\ req' = [Respond(r, 400, "Failed to download input file") EXCEPT ![r].dl = "rejected"]
    /\ UNCHANGED <<cacheFiles, jobs, wait, worker, fvars>>

\* axios.get resolves with the response headers; content-type check, then
\* createWriteStream(cachedInputFile) and pipe
DownloadResolves(r) ==
    /\ req[r].pc = "download"
    /\ \E ct \in ContentTypes, name \in Names :
         IF ct = "application/json"
         THEN /\ req' = [Respond(r, 400, "Invalid file type") EXCEPT ![r].dl = "json"]
              /\ UNCHANGED cacheFiles
         ELSE /\ req' = [req EXCEPT ![r].pc = "write", ![r].cachedInputFile = name]
              /\ cacheFiles' = cacheFiles \cup {name}
    /\ UNCHANGED <<jobs, wait, worker, fvars>>

\* writer 'finish': the file is cached, ffprobe is spawned
WriterFinish(r) ==
    /\ req[r].pc = "write"
    /\ req' = [req EXCEPT ![r].pc = "probe", ![r].dl = "ok"]
    /\ UNCHANGED <<cacheFiles, jobs, wait, worker, fvars>>

\* writer 'error': inner catch; the partly written file is not removed
WriterError(r) ==
    /\ req[r].pc = "write"
    /\ req' = [Respond(r, 400, "Failed to download input file") EXCEPT ![r].dl = "writeerror"]
    /\ UNCHANGED <<cacheFiles, jobs, wait, worker, fvars>>

\* the response stream fails or stalls: pipe() forwards no error to the
\* writer, neither 'finish' nor 'error' is emitted, the await never returns
StreamStalls(r) ==
    /\ req[r].pc = "write"
    /\ req' = [req EXCEPT ![r].pc = "hung", ![r].dl = "stalled"]
    /\ UNCHANGED <<cacheFiles, jobs, wait, worker, fvars>>

\* ffprobe 'close' with a non-zero code, 'close' with output that does not
\* parse, or 'error': the promise rejects, inner catch
ProbeFails(r) ==
    /\ req[r].pc = "probe"
    /\ \E why \in {"exit", "parse", "spawn"} :
         req' = [Respond(r, 400, "Failed to download input file") EXCEPT ![r].probe = why]
    /\ UNCHANGED <<cacheFiles, jobs, wait, worker, fvars>>

\* ffprobe 'close' with code 0 and parsable output (the cached file must
\* still be there to be probed); then the output name is generated and
\* videoQueue.add is called
ProbeSucceeds(r) ==
    /\ req[r].pc = "probe"
    /\ req[r].cachedInputFile \in cacheFiles
    /\ \E dims \in ProbeDims, name \in Names :
         req' = [req EXCEPT ![r].pc = "add", ![r].probe = "ok",
                            ![r].inputWidth = dims[1], ![r].inputHeight = dims[2],
                            ![r].filename = name]
    /\ UNCHANGED <<cacheFiles, jobs, wait, worker, fvars>>


\* processingData = { ...data, input_width, input_height, request_host,
\*                    cached_input_file, output_file }
processingData(r) ==
    LET data == req[r].body IN
    [record_id         |-> data.record_id,
     input_url         |-> data.input_url,
     webhook_url       |-> data.webhook_url,
     framerate         |-> data.framerate,
     duration          |-> data.duration,
     cache             |-> data.cache,
     zoom              |-> data.zoom,
     crop              |-> data.crop,
     output_width      |-> data.output_width,
     output_height     |-> data.output_height,
     input_width       |-> req[r].inputWidth,
     input_height      |-> req[r].inputHeight,
     request_host      |-> "api.host",
     cached_input_file |-> <<cacheDir, req[r].cachedInputFile>>,
     output_file       |-> <<moviesDir, req[r].filename>>]

(***************************************************************************)
(* The Bull queue: videoQueue.add('createVideo', data, { attempts: 3,      *)
(* backoff: { type: 'exponential', delay: 2000 } }).                       *)
(***************************************************************************)
attempts == 3

backoffDelay == 2000

RECURSIVE Pow2(_)
Pow2(n) == IF n = 0 THEN 1 ELSE 2 * Pow2(n - 1)

\* the 'fixed' strategy in place of 'exponential'
fixedBackoff(attemptsMade) == backoffDelay

\* Bull's built-in 'exponential' backoff strategy:
\* Math.round((Math.pow(2, attemptsMade) - 1) * delay)
exponentialBackoff(attemptsMade) == (Pow2(attemptsMade) - 1) * backoffDelay

\* generateRandomFilename(): the text of a drawn name
NameText(name) == toString(name) \o <<".", "m", "p", "4">>

\* the job is added under the name of its output file
JobKeyIsFilename(data, counter) == NameText(data.output_file[2])

\* the options of videoQueue.add name no jobId: Bull gives the job the next
\* value of the queue's id counter, as a string
JobKey(data, counter) == toString(counter)

\* a job as Bull stores it (origin, handlerRuns, delays and cmd record what
\* happened to it: the request it came from, the runs of the processor, the
\* backoff delays it was given, the last command handed to spawn, how often
\* the cleanup block ran for it and what the block did the last time, how
\* often the encoder was started for it and how many of its webhook calls
\* went through)
NewJob(data, r) ==
    [key |-> JobKey(data, Len(jobs) + 1),
     data |-> data, state |-> "waiting", attemptsMade |-> 0,
     origin |-> r, handlerRuns |-> 0, delays |-> << >>, cmd |-> << >>,
     cleanups |-> 0, cleanup |-> "none",
     encoderStarts |-> 0, webhookOks |-> 0]

\* await videoQueue.add(...) : the job is stored and put on the wait list
QueueAdd(r) ==
    /\ req[r].pc = "add"
    /\ jobs' = Append(jobs, NewJob(processingData(r), r))
    /\ wait' = Append(wait, Len(jobs) + 1)
    /\ req' = [req EXCEPT ![r].pc = "added", ![r].jobId = Len(jobs) + 1]
    /\ UNCHANGED <<cacheFiles, worker, fvars>>

\* videoQueue.add rejects (queue store unreachable): outer catch
QueueAddRejects(r) ==
    /\ req[r].pc = "add"
    /\ req' = Respond(r, 500, "Internal server error")
    /\ UNCHANGED <<cacheFiles, jobs, wait, worker, fvars>>

\* input_width and input_height change places
responsePayloadSwapsDims(r) ==
    [record_id     |-> req[r].body.record_id,
     filename      |-> req[r].filename,
     message       |-> "Video processing started",
     input_height  |-> req[r].inputWidth,
     input_width   |-> req[r].inputHeight,
     output_height |-> req[r].body.output_height,
     output_width  |-> req[r].body.output_width]

\* responsePayload = { record_id, filename, message, input_height,
\*                     input_width, output_height, output_width }
responsePayload(r) ==
    [record_id     |-> req[r].body.record_id,
     filename      |-> req[r].filename,
     message       |-> "Video processing started",
     input_height  |-> req[r].inputHeight,
     input_width   |-> req[r].inputWidth,
     output_height |-> req[r].body.output_height,
     output_width  |-> req[r].body.output_width]

\* res.json(responsePayload)
Respond200(r) ==
    /\ req[r].pc = "added"
    /\ req' = [Respond(r, 200, "") EXCEPT ![r].payload = <<responsePayload(r)>>]
    /\ UNCHANGED <<cacheFiles, jobs, wait, worker, fvars>>

JobIds == 1..Len(jobs)

IdleWorker ==
    [job |-> 0, pc |-> "idle", inputOk |-> FALSE,
     encoder |-> "none", webhook |-> "none"]

\* one retry too many
RetryOffByOne(made) == made <= attempts

\* whether a failed attempt is retried: attemptsMade < opts.attempts
RetryAllowed(made) == made < attempts

\* the head is read but not removed
WaitNotPopped(w) == w

\* the wait list once its head has been moved to active
WaitAfterTake(w) == Tail(w)

\* Bull's job.moveToFailed after the processor threw: the attempt is counted,
\* then the job is delayed by the backoff (or retried at once when the
\* backoff is 0), or it is failed for good
JobsAfterFailure(j) ==
    LET made  == jobs[j].attemptsMade + 1
        delay == exponentialBackoff(made)
    IN  IF RetryAllowed(made)
        THEN [jobs EXCEPT ![j].attemptsMade = made,
                          ![j].state = IF delay > 0 THEN "delayed" ELSE "waiting",
                          ![j].delays = Append(@, delay)]
        ELSE [jobs EXCEPT ![j].attemptsMade = made, ![j].state = "failed"]

WaitAfterFailure(j) ==
    LET made == jobs[j].attemptsMade + 1 IN
    IF RetryAllowed(made) /\ exponentialBackoff(made) = 0
    THEN Append(wait, j)
    ELSE wait

\* the job is never acknowledged as completed
JobsNotAcked(j) == jobs

\* Bull's job.moveToCompleted after the processor returned
JobsAfterSuccess(j) ==
    [jobs EXCEPT ![j].state = "completed"]

\* the worker takes the next job of the wait list and makes it active
TakeJob ==
    /\ worker.pc = "idle"
    /\ wait # << >>
    /\ LET j == Head(wait) IN
       /\ jobs' = [jobs EXCEPT ![j].state = "active"]
       /\ worker' = [IdleWorker EXCEPT !.job = j, !.pc = "start"]
    /\ wait' = WaitAfterTake(wait)
    /\ UNCHANGED <<req, cacheFiles, fvars>>

\* the processor runs createVideoTask up to its first await: the dimension
\* guard throws, or the command is built and ffmpeg is spawned
HandlerStart ==
    /\ worker.pc = "start"
    /\ LET j == worker.job IN
       IF DimsInvalid(jobs[j].data)
       THEN /\ jobs' = [JobsAfterFailure(j) EXCEPT ![j].handlerRuns = @ + 1]
            /\ wait' = WaitAfterFailure(j)
            /\ worker' = IdleWorker
       ELSE /\ jobs' = [jobs EXCEPT ![j].handlerRuns = @ + 1,
                                    ![j].cmd = <<ffmpegCommand(jobs[j].data)>>,
                                    ![j].encoderStarts = @ + 1]
            /\ wait' = wait
            /\ worker' = [worker EXCEPT !.pc = "ffmpeg",
                            !.inputOk = jobs[j].data.cached_input_file[2] \in cacheFiles]
    /\ UNCHANGED <<req, cacheFiles, fvars>>

\* the exit codes ffmpeg's 'close' event can carry
ExitCodes == {0, 1}

ExitName(code) == IF code = 0 THEN "exit0" ELSE "exitN"

\* process.on('close', code): ffmpeg has ended (it exits with 0 only if it
\* could read its input)
FfmpegCloses ==
    /\ worker.pc = "ffmpeg"
    /\ \E code \in ExitCodes :
         /\ code = 0 => worker.inputOk
         /\ worker' = [worker EXCEPT !.pc = "closed", !.encoder = ExitName(code)]
    /\ UNCHANGED <<req, cacheFiles, jobs, wait, fvars>>

\* process.on('error'): ffmpeg could not be started
FfmpegSpawnError ==
    /\ worker.pc = "ffmpeg"
    /\ worker' = [worker EXCEPT !.pc = "closed", !.encoder = "error"]
    /\ UNCHANGED <<req, cacheFiles, jobs, wait, fvars>>

\* the promise resolves however ffmpeg ended
EncoderAlwaysResolves(outcome) == TRUE

\* if (code === 0) resolve() else reject(...); 'error' rejects
EncoderResolves(outcome) == outcome = "exit0"

\* the webhook is called whether or not webhook_url is given
WebhookAlways(d) == TRUE

\* if (webhook_url) { ... axios.post ... }
HasWebhook(d) == d.webhook_url.present

\* await of the ffmpeg promise resolved: with webhook_url the webhook is
\* called, without it the task goes on to the cleanup
FfmpegSucceeds ==
    /\ worker.pc = "closed"
    /\ EncoderResolves(worker.encoder)
    /\ worker' = [worker EXCEPT !.pc =
                     IF HasWebhook(jobs[worker.job].data) THEN "webhook" ELSE "cleanup"]
    /\ UNCHANGED <<req, cacheFiles, jobs, wait, fvars>>

\* await of the ffmpeg promise rejected: createVideoTask throws, the
\* processor rethrows
FfmpegFails ==
    /\ worker.pc = "closed"
    /\ ~EncoderResolves(worker.encoder)
    /\ jobs' = JobsAfterFailure(worker.job)
    /\ wait' = WaitAfterFailure(worker.job)
    /\ worker' = IdleWorker
    /\ UNCHANGED <<req, cacheFiles, fvars>>

\* axios.post(webhook_url, payload, {timeout: 10000}) resolves or rejects
WebhookReturns ==
    /\ worker.pc = "webhook"
    /\ \E result \in {"ok", "failed"} :
         /\ worker' = [worker EXCEPT !.pc = "posted", !.webhook = result]
         /\ jobs' = [jobs EXCEPT ![worker.job].webhookOks =
                                    IF result = "ok" THEN @ + 1 ELSE @]
    /\ UNCHANGED <<req, cacheFiles, wait, fvars>>

\* the error of the webhook call is logged and swallowed
WebhookErrorSwallowed(result) == FALSE

\* catch (error) { ...; throw new Error('Webhook call failed') }
WebhookThrows(result) == result = "failed"

\* the webhook call went through: on to the cleanup
WebhookSucceeds ==
    /\ worker.pc = "posted"
    /\ ~WebhookThrows(worker.webhook)
    /\ worker' = [worker EXCEPT !.pc = "cleanup"]
    /\ UNCHANGED <<req, cacheFiles, jobs, wait, fvars>>

\* the webhook call failed: createVideoTask throws, the processor rethrows
WebhookFails ==
    /\ worker.pc = "posted"
    /\ WebhookThrows(worker.webhook)
    /\ jobs' = JobsAfterFailure(worker.job)
    /\ wait' = WaitAfterFailure(worker.job)
    /\ worker' = IdleWorker
    /\ UNCHANGED <<req, cacheFiles, fvars>>

\* fs.existsSync / fs.unlinkSync inside try-catch: the file is removed, or
\* unlinkSync throws and it stays, or it was not there
CleanupOutcomes(file) ==
    IF file[2] \in cacheFiles
    THEN { [result |-> "removed", files |-> cacheFiles \ {file[2]}],
           [result |-> "failed",  files |-> cacheFiles] }
    ELSE { [result |-> "absent",  files |-> cacheFiles] }

\* the task throws after the cleanup block, whatever the block did
CleanupAlwaysThrows(result) == TRUE

\* an error of unlinkSync leaves the cleanup block
CleanupErrorEscapes(result) == result = "failed"

\* catch (error) { logger.warn(...) }: nothing leaves the cleanup block
CleanupThrows(result) == FALSE

\* the cleanup block, then createVideoTask and the processor return
Cleanup ==
    /\ worker.pc = "cleanup"
    /\ \E out \in CleanupOutcomes(jobs[worker.job].data.cached_input_file) :
         /\ cacheFiles' = out.files
         /\ IF CleanupThrows(out.result)
            THEN /\ jobs' = [JobsAfterFailure(worker.job)
                                EXCEPT ![worker.job].cleanups = @ + 1,
                                       ![worker.job].cleanup = out.result]
                 /\ wait' = WaitAfterFailure(worker.job)
            ELSE /\ jobs' = [JobsAfterSuccess(worker.job)
                                EXCEPT ![worker.job].cleanups = @ + 1,
                                       ![worker.job].cleanup = out.result]
                 /\ wait' = wait
    /\ worker' = IdleWorker
    /\ UNCHANGED <<req, fvars>>

\* the backoff delay of a delayed job has passed: back to the wait list
PromoteDelayed(j) ==
    /\ jobs[j].state = "delayed"
    /\ jobs' = [jobs EXCEPT ![j].state = "waiting"]
    /\ wait' = Append(wait, j)
    /\ UNCHANGED <<req, cacheFiles, worker, fvars>>

(***************************************************************************)
(* createVideoTask on its own, over a range of dimensions and parameters.  *)
(***************************************************************************)
InputDims == (0..MaxDim) \cup {600, 800}

OutputDims == (1..MaxDim) \cup {400}

ZoomValues == {-100, -50, 0, 50, 100}

TaskInputs ==
    { [record_id |-> <<"r", "1">>, input_url |-> Url("https", "example.com"),
       webhook_url |-> NoUrl, framerate |-> fr, duration |-> du, cache |-> FALSE,
       zoom |-> z, crop |-> c, output_width |-> ow, output_height |-> oh,
       input_width |-> iw, input_height |-> ih, request_host |-> "api.host",
       cached_input_file |-> <<cacheDir, 1>>, output_file |-> <<moviesDir, 1>>] :
      fr \in {1, 30}, du \in {5, 60}, z \in ZoomValues, c \in BOOLEAN,
      ow \in OutputDims, oh \in OutputDims, iw \in InputDims, ih \in InputDims }

TaskThrows ==
    /\ fpc = "start"
    /\ DimsInvalid(fdata)
    /\ fpc' = "threw"
    /\ UNCHANGED <<fdata, fcmd, pvars>>

TaskSpawns ==
    /\ fpc = "start"
    /\ ~DimsInvalid(fdata)
    /\ fcmd' = <<ffmpegCommand(fdata)>>
    /\ fpc' = "spawned"
    /\ UNCHANGED <<fdata, pvars>>

(***************************************************************************)
(* Specifications.                                                         *)
(***************************************************************************)
PipelineIdle ==
    /\ cacheFiles = {}
    /\ jobs = << >>
    /\ wait = << >>
    /\ worker = IdleWorker

TaskIdle ==
    /\ fdata = CHOOSE d \in TaskInputs : TRUE
    /\ fcmd = << >>
    /\ fpc = "off"

Init ==
    /\ req \in [Requests -> {NewRequest(b) : b \in Bodies}]
    /\ PipelineIdle
    /\ TaskIdle

Intake(r) ==
    \/ Receive(r)
    \/ DownloadRejects(r)
    \/ DownloadResolves(r)
    \/ WriterFinish(r)
    \/ WriterError(r)
    \/ StreamStalls(r)
    \/ ProbeFails(r)
    \/ ProbeSucceeds(r)
    \/ QueueAdd(r)
    \/ QueueAddRejects(r)
    \/ Respond200(r)

Work ==
    \/ TakeJob
    \/ HandlerStart
    \/ FfmpegSucceeds
    \/ FfmpegCloses
    \/ FfmpegSpawnError
    \/ FfmpegFails
    \/ WebhookReturns
    \/ WebhookSucceeds
    \/ WebhookFails
    \/ Cleanup
    \/ \E j \in JobIds : PromoteDelayed(j)

Next == (\E r \in Requests : Intake(r)) \/ Work

Spec == Init /\ [][Next]_vars

\* the runs in which the last request is a valid one with a webhook_url (the
\* longest way through the worker); the requests before it are arbitrary
LiveInit == Init /\ isValidUrl(req[MaxReq].body.webhook_url)

\* the worker and the queue's timers keep running; each encoder run and each
\* webhook call returns
FairSpec == LiveInit /\ [][Next]_vars /\ WF_vars(Work)

FilterInit ==
    /\ req = [r \in Requests |-> NewRequest(GoodBody)]
    /\ PipelineIdle
    /\ fdata \in TaskInputs
    /\ fcmd = << >>
    /\ fpc = "start"

FilterNext == TaskThrows \/ TaskSpawns

SpecFilter == FilterInit /\ [][FilterNext]_vars


(***************************************************************************)
(* Claims about the intake and the queue.                                  *)
(***************************************************************************)
Queued(j) == jobs[j].state \in {"waiting", "delayed"}

Terminal(j) == jobs[j].state \in {"completed", "failed"}

ChecksPassed(r) ==
    /\ validateJson(req[r].body).isValid
    /\ isValidUrl(req[r].body.input_url)
    /\ req[r].body.webhook_url.present => isValidUrl(req[r].body.webhook_url)

\* a step of the intake failed and the handler saw it fail
StepFailed(r) ==
    /\ req[r].pc # "new"
    /\ \/ ~ChecksPassed(r)
       \/ req[r].dl \in {"rejected", "json", "writeerror"}
       \/ req[r].probe \in {"exit", "parse", "spawn"}

C2_AtMostThreeAttempts ==
    /\ [](\A j \in JobIds :
            /\ jobs[j].handlerRuns <= 3
            /\ jobs[j].attemptsMade <= 3
            /\ jobs[j].handlerRuns <= jobs[j].attemptsMade + 1
            /\ jobs[j].state = "failed" =>
                 /\ jobs[j].attemptsMade = 3
                 /\ worker.job # j
                 /\ \A i \in 1..Len(wait) : wait[i] # j)
    /\ [][\A j \in JobIds :
            /\ jobs'[j].attemptsMade # jobs[j].attemptsMade =>
                 /\ jobs[j].state = "active"
                 /\ jobs'[j].attemptsMade = jobs[j].attemptsMade + 1
                 /\ IF jobs'[j].attemptsMade < 3
                    THEN jobs'[j].state \in {"waiting", "delayed"}
                    ELSE jobs'[j].state = "failed"
            /\ jobs[j].state = "failed" => jobs'[j] = jobs[j]]_vars

C2_Witness ==
    \E j \in JobIds :
        /\ jobs[j].state = "failed"
        /\ jobs[j].handlerRuns = 3
        /\ Len(jobs[j].delays) = 2

IsPrefix(s, t) == Len(s) <= Len(t) /\ \A i \in 1..Len(s) : s[i] = t[i]

\* C3 as stated: the backoff delays of a job are 2 s before the second attempt
\* and 4 s before the third.
C3_DelaysDouble ==
    \A j \in JobIds : IsPrefix(jobs[j].delays, <<2000, 4000>>)

\* C3 as amended: the backoff delays of a job are 2 s before the second
\* attempt and 6 s before the third ((2^n - 1) * 2 s after the n-th failure).
C3_DelaysTwoThenSix ==
    \A j \in JobIds :
        /\ IsPrefix(jobs[j].delays, <<2000, 6000>>)
        /\ Len(jobs[j].delays) = MathMin(jobs[j].attemptsMade, 2)
        /\ jobs[j].state = "delayed" => Len(jobs[j].delays) = jobs[j].attemptsMade

C3_Witness ==
    \E j \in JobIds :
        /\ jobs[j].delays = <<2000, 6000>>
        /\ jobs[j].state = "delayed"

Phase(st) == IF st \in {"waiting", "delayed"} THEN "Queued" ELSE st

\* C4: a job's state moves only Queued -> Active, Active -> Completed,
\* Active -> Failed or Active -> Queued; a job starts Queued; a Completed or
\* Failed job never changes again and its handler never runs again.
C4_JobStateMachine ==
    [][/\ \A j \in JobIds :
            /\ Phase(jobs'[j].state) # Phase(jobs[j].state) =>
                 <<Phase(jobs[j].state), Phase(jobs'[j].state)>> \in
                     { <<"Queued", "active">>, <<"active", "completed">>,
                       <<"active", "failed">>, <<"active", "Queued">> }
            /\ Terminal(j) => jobs'[j] = jobs[j]
            /\ jobs'[j].handlerRuns # jobs[j].handlerRuns => jobs[j].state = "active"
       /\ \A j \in 1..Len(jobs') : j \notin JobIds => jobs'[j].state = "waiting"]_vars

C4_Witness ==
    /\ \E j \in JobIds : jobs[j].state = "completed" /\ jobs[j].attemptsMade = 1
    /\ \E j \in JobIds : jobs[j].state = "failed"

\* C5: under fair scheduling of the worker, every enqueued job eventually
\* reaches Completed or Failed.
C5_EveryJobEnds ==
    \A j \in 1..MaxReq :
        (j \in JobIds) ~> (j \in JobIds /\ Terminal(j))

C5_Witness ==
    \E j \in JobIds : jobs[j].state = "completed" /\ jobs[j].attemptsMade = 2


(***************************************************************************)
(* Claims about the filter chain handed to the encoder.                    *)
(***************************************************************************)
\* the -vf chain of the command createVideoTask spawned
Chain == fcmd[1].vf

StagesOf(kinds) == {i \in 1..Len(Chain) : Chain[i].kind \in kinds}

CropPadKinds == {"crop", "scalefit", "scaledecrease", "pad"}

DigitValue(c) ==
    CASE c = "0" -> 0 [] c = "1" -> 1 [] c = "2" -> 2 [] c = "3" -> 3
      [] c = "4" -> 4 [] c = "5" -> 5 [] c = "6" -> 6 [] c = "7" -> 7
      [] c = "8" -> 8 [] c = "9" -> 9

RECURSIVE ParseDecimal(_)
\* the number a command-line argument of decimal digits denotes
ParseDecimal(str) ==
    IF str = << >> THEN 0
    ELSE 10 * ParseDecimal(SubSeq(str, 1, Len(str) - 1)) + DigitValue(str[Len(str)])

\* C6: the chain is pixel format, crop-or-pad, zoom, final scale: for every
\* job with zoom # 0 the chain given to the encoder has a zoom stage, after
\* the crop/pad stages and before the final scale to output_width:output_height.
C6_ZoomStageInChain ==
    fpc = "spawned" =>
        /\ Chain[1].kind = "format"
        /\ Chain[Len(Chain)].kind = "scale"
        /\ Chain[Len(Chain)].w = fdata.output_width
        /\ Chain[Len(Chain)].h = fdata.output_height
        /\ fdata.zoom # 0 =>
             \E z \in StagesOf({"zoompan"}) :
                 /\ z < Len(Chain)
                 /\ \A i \in StagesOf(CropPadKinds) : i < z

\* C7: with crop true and differing dimensions the chain has exactly one crop
\* stage and no pad stage; the crop is min(input, output) on each axis at
\* offset floor((input - crop) / 2); (800,600) -> (400,400) crops 400x400 at
\* (200,100).
C7_CropCentered ==
    (fpc = "spawned" /\ fdata.crop /\ DimsDiffer(fdata)) =>
        /\ Cardinality(StagesOf({"crop"})) = 1
        /\ StagesOf({"pad", "scalefit", "scaledecrease"}) = {}
        /\ \A i \in StagesOf({"crop"}) :
             /\ Chain[i].w = (IF fdata.input_width < fdata.output_width
                              THEN fdata.input_width ELSE fdata.output_width)
             /\ Chain[i].h = (IF fdata.input_height < fdata.output_height
                              THEN fdata.input_height ELSE fdata.output_height)
             /\ 2 * Chain[i].x <= fdata.input_width - Chain[i].w
             /\ fdata.input_width - Chain[i].w < 2 * Chain[i].x + 2
             /\ 2 * Chain[i].y <= fdata.input_height - Chain[i].h
             /\ fdata.input_height - Chain[i].h < 2 * Chain[i].y + 2
             /\ ( /\ fdata.input_width = 800 /\ fdata.input_height = 600
                  /\ fdata.output_width = 400 /\ fdata.output_height = 400 )
                => Chain[i] = [kind |-> "crop", w |-> 400, h |-> 400,
                               x |-> 200, y |-> 100]

C7_Witness ==
    /\ fpc = "spawned"
    /\ fdata.crop
    /\ fdata.input_width = 800 /\ fdata.input_height = 600
    /\ fdata.output_width = 400 /\ fdata.output_height = 400
    /\ StagesOf({"crop"}) # {}

\* C8: with crop false and differing dimensions the chain has a pad stage to
\* exactly output_w x output_h that centres the scaled content, and no crop
\* stage; no chain has both a crop stage and a pad stage.
C8_PadCentered ==
    fpc = "spawned" =>
        /\ (~fdata.crop /\ DimsDiffer(fdata)) =>
             /\ StagesOf({"crop"}) = {}
             /\ Cardinality(StagesOf({"pad"})) = 1
             /\ \A i \in StagesOf({"pad"}) :
                  /\ Chain[i].w = fdata.output_width
                  /\ Chain[i].h = fdata.output_height
                  /\ Chain[i].xexpr = "(ow-iw)/2"
                  /\ Chain[i].yexpr = "(oh-ih)/2"
                  /\ \E k \in StagesOf({"scaledecrease"}) :
                       /\ k < i
                       /\ Chain[k].w = fdata.output_width
                       /\ Chain[k].h = fdata.output_height
        /\ ~(StagesOf({"crop"}) # {} /\ StagesOf({"pad"}) # {})

C8_Witness ==
    /\ fpc = "spawned"
    /\ ~fdata.crop
    /\ fdata.input_width = 800 /\ fdata.input_height = 600
    /\ fdata.output_width = 400 /\ fdata.output_height = 400
    /\ StagesOf({"pad"}) # {}

\* C9: with equal input and output dimensions and zoom = 0 (crop true or
\* false) the chain is only the pixel-format stage and the final scale to
\* output_width:output_height, and the encoder gets the request's duration and
\* framerate unchanged.
C9_PlainChain ==
    (/\ fpc = "spawned"
     /\ fdata.input_width = fdata.output_width
     /\ fdata.input_height = fdata.output_height
     /\ fdata.zoom = 0) =>
        /\ Chain = << [kind |-> "format", pix |-> "yuv420p"],
                      [kind |-> "scale", w |-> fdata.output_width,
                       h |-> fdata.output_height] >>
        /\ ParseDecimal(fcmd[1].t) = fdata.duration
        /\ ParseDecimal(fcmd[1].r) = fdata.framerate

C9_Witness ==
    /\ fpc = "spawned"
    /\ fdata.input_width = fdata.output_width
    /\ fdata.input_height = fdata.output_height
    /\ fdata.zoom = 0
    /\ ~fdata.crop
    /\ fdata.duration = 5 /\ fdata.framerate = 30
    /\ Len(Chain) = 2

\* C10: the zoom stage of the chain has the per-frame rate |zoom|/100 * 0.1:
\* growing and capped at 2 for zoom > 0, shrinking and floored at 1 for
\* zoom < 0; for zoom = 0 the chain has no zoom stage.
C10_ZoomRate ==
    fpc = "spawned" =>
        /\ fdata.zoom > 0 =>
             \E z \in StagesOf({"zoompan"}) :
                 /\ Chain[z].fn = "min" /\ Chain[z].sign = 1 /\ Chain[z].limit = 2
                 /\ Chain[z].rate.num * 1000 = fdata.zoom * Chain[z].rate.den
        /\ fdata.zoom < 0 =>
             \E z \in StagesOf({"zoompan"}) :
                 /\ Chain[z].fn = "max" /\ Chain[z].sign = -1 /\ Chain[z].limit = 1
                 /\ Chain[z].rate.num * 1000 = (-fdata.zoom) * Chain[z].rate.den
        /\ fdata.zoom = 0 => StagesOf({"zoompan"}) = {}

---------------------------------------------------------------------------
\* the attempts of createVideoTask

\* the job the worker is running (0 when it is idle)
Running == worker.job

\* the worker takes a step (requests are handled in between its steps)
Moves == worker' # worker

\* the attempt the worker is running ends in this step as a failure
AttemptFails ==
    /\ jobs'[Running].attemptsMade = jobs[Running].attemptsMade + 1
    /\ jobs'[Running].state \in {"delayed", "failed"}
    /\ worker' = IdleWorker

\* C11: an attempt reports nothing while its encoder runs, and reports
\* success only for exit code 0: every non-zero exit code and every spawn
\* error makes the attempt fail, and neither the webhook call nor the cleanup
\* of an attempt starts before its encoder has exited with code 0.
C11_ResultAfterEncoderExit ==
    /\ [](/\ worker.pc \in {"start", "ffmpeg"} => worker.encoder = "none"
          /\ worker.pc \in {"webhook", "posted", "cleanup"} => worker.encoder = "exit0"
          /\ \A j \in JobIds :
               (jobs[j].state = "active") = (Running = j /\ worker.pc # "idle"))
    /\ [][/\ worker.pc = "ffmpeg" =>
               /\ jobs'[Running] = jobs[Running]
               /\ Moves => worker'.pc = "closed" /\ worker'.encoder # "none"
          /\ worker.pc = "closed" /\ worker.encoder \in {"exitN", "error"} /\ Moves =>
               AttemptFails
          /\ \A j \in JobIds :
               jobs[j].state # "completed" /\ jobs'[j].state = "completed" =>
                 Running = j /\ worker.encoder = "exit0"]_vars

C11_Witness ==
    /\ worker.pc = "closed"
    /\ worker.encoder = "error"
    /\ jobs[Running].attemptsMade = 2
    /\ \E j \in JobIds : jobs[j].state = "completed"

\* C12: with webhook_url and a successful render, a failed webhook call fails
\* the attempt: the job is retried while it has attempts left, each retry
\* running the encoder again before it calls the webhook again, and the job
\* ends failed when the third attempt fails at the webhook too; the cached
\* file stays.
C12_WebhookFailureFailsAttempt ==
    /\ [](worker.pc \in {"webhook", "posted"} =>
            /\ jobs[Running].data.webhook_url.present
            /\ worker.encoder = "exit0"
            /\ jobs[Running].handlerRuns = jobs[Running].attemptsMade + 1)
    /\ [][worker.pc = "posted" /\ worker.webhook = "failed" /\ Moves =>
            /\ AttemptFails
            /\ jobs'[Running].state =
                 IF jobs[Running].attemptsMade + 1 < attempts THEN "delayed" ELSE "failed"
            /\ cacheFiles' = cacheFiles]_vars

C12_Witness ==
    /\ worker.pc = "posted"
    /\ worker.webhook = "failed"
    /\ jobs[Running].attemptsMade = 2
    /\ jobs[Running].handlerRuns = 3

\* C13: for a job without webhook_url the webhook is never called, and once
\* the encoder of an attempt has exited with code 0 the task goes straight to
\* the cleanup and the job is completed whatever the cleanup does.
C13_NoWebhookUrlNoCall ==
    /\ [](worker.pc \in {"webhook", "posted"} => jobs[Running].data.webhook_url.present)
    /\ [][Moves /\ worker.pc # "idle" /\ ~jobs[Running].data.webhook_url.present =>
            /\ worker.pc = "closed" /\ worker.encoder = "exit0" =>
                 worker'.pc = "cleanup" /\ jobs' = jobs
            /\ worker.pc = "cleanup" =>
                 jobs'[Running].state = "completed"]_vars

C13_Witness ==
    \E j \in JobIds :
        /\ ~jobs[j].data.webhook_url.present
        /\ jobs[j].state = "completed"
        /\ jobs[j].attemptsMade = 0
        /\ jobs[j].data.cached_input_file[2] \in cacheFiles

\* C14: the webhook is called in an attempt only after the encoder of that
\* same attempt exited with code 0; an attempt whose encoder failed ends
\* without a webhook call, so a job whose three attempts all failed at the
\* encoder never had one.
C14_NoWebhookOnFailure ==
    [][/\ worker'.pc = "webhook" /\ worker.pc # "webhook" =>
            /\ worker.pc = "closed"
            /\ worker.encoder = "exit0"
            /\ worker'.job = Running
       /\ worker.pc = "closed" /\ worker.encoder # "exit0" /\ Moves =>
            worker'.pc = "idle"
       /\ worker'.pc = "posted" => worker.pc \in {"webhook", "posted"}]_vars

C14_Witness ==
    /\ worker.pc = "webhook"
    /\ jobs[Running].attemptsMade = 1
    /\ \E j \in JobIds : jobs[j].state = "failed" /\ jobs[j].data.webhook_url.present

\* attempts of job j that have concluded
Concluded(j) ==
    jobs[j].attemptsMade + (IF jobs[j].state = "completed" THEN 1 ELSE 0)

C16_TerminalJobsCleanedUp ==
    \A j \in JobIds : Terminal(j) => jobs[j].cleanups >= 1

\* C17: the outcome of the removal never changes the outcome of the job: the
\* step through the cleanup block completes the job, counts no failed
\* attempt and gives no retry, whether the file was removed, unlinkSync threw
\* or there was no file.
C17_CleanupNeverFailsJob ==
    /\ [](\A j \in JobIds :
            /\ jobs[j].cleanup # "none" => jobs[j].state = "completed"
            /\ jobs[j].state = "completed" =>
                 jobs[j].cleanup \in {"removed", "failed", "absent"})
    /\ [][worker.pc = "cleanup" /\ Moves =>
            /\ jobs'[Running].state = "completed"
            /\ jobs'[Running].attemptsMade = jobs[Running].attemptsMade
            /\ jobs'[Running].delays = jobs[Running].delays
            /\ wait' = wait
            /\ worker' = IdleWorker
            /\ jobs'[Running].cleanup =
                 IF jobs[Running].data.cached_input_file[2] \notin cacheFiles THEN "absent"
                 ELSE IF cacheFiles' = cacheFiles THEN "failed" ELSE "removed"]_vars

C17_Witness ==
    \E j, k \in JobIds :
        /\ jobs[j].state = "completed" /\ jobs[j].cleanup = "failed"
        /\ jobs[j].data.webhook_url.present
        /\ jobs[k].state = "completed" /\ jobs[k].cleanup = "removed"

---------------------------------------------------------------------------
\* the intake of POST /create-video

\* the download or the probe of request r failed
AcquisitionFailed(r) ==
    \/ req[r].dl \in {"rejected", "json", "writeerror"}
    \/ req[r].probe \in {"exit", "parse", "spawn"}

\* C18: every acquisition failure (download rejected, wrong content type,
\* write error, probe exit code, unparsable probe output, probe not started)
\* is answered with 400 and leaves no cached file of the request in the
\* cache directory.
C18_AcquisitionFailureLeavesNoFile ==
    \A r \in Requests :
        AcquisitionFailed(r) =>
          /\ req[r].pc = "done"
          /\ req[r].status = 400
          /\ req[r].cachedInputFile \notin cacheFiles

\* a body breaks the schema: a key out of its range or format
BreaksSchema(b) ==
    \/ b.record_id = << >>
    \/ \E i \in 1..Len(b.record_id) : b.record_id[i] \in {" ", "!"}
    \/ ~b.input_url.uri
    \/ b.webhook_url.present /\ ~b.webhook_url.uri
    \/ b.framerate <= 0
    \/ b.duration <= 0 \/ b.duration > 60
    \/ b.zoom < -100 \/ b.zoom > 100
    \/ b.output_width <= 0 \/ b.output_height <= 0

\* a URL names a scheme or a host the service does not allow
Disallowed(u) ==
    \/ u.scheme \notin {"http", "https"}
    \/ u.hostname \notin (allowedDomains \cup allowedIPs)

\* C19: the checks run in the order schema, input_url, webhook_url (when
\* present) and the first violation decides the answer: a body that breaks
\* the schema gets the schema error even when its URLs are disallowed too,
\* and a disallowed URL gets an error text that is not the schema's.
C19_FirstViolationDecides ==
    \A r \in Requests :
        req[r].pc # "new" =>
          LET b == req[r].body IN
          /\ BreaksSchema(b) =>
               /\ req[r].pc = "done" /\ req[r].status = 400
               /\ req[r].error = "Invalid input data"
          /\ ~BreaksSchema(b) /\ Disallowed(b.input_url) =>
               /\ req[r].pc = "done" /\ req[r].status = 400
               /\ req[r].error = "Invalid input URL"
          /\ ~BreaksSchema(b) /\ ~Disallowed(b.input_url)
               /\ b.webhook_url.present /\ Disallowed(b.webhook_url) =>
               /\ req[r].pc = "done" /\ req[r].status = 400
               /\ req[r].error = "Invalid webhook URL"
          /\ ~b.webhook_url.present => req[r].error # "Invalid webhook URL"
          /\ req[r].error \in {"Invalid input URL", "Invalid webhook URL"} =>
               ~BreaksSchema(b)

C19_Witness ==
    /\ BreaksSchema(req[1].body)
    /\ Disallowed(req[1].body.input_url)
    /\ req[1].body.input_url.uri
    /\ req[1].error = "Invalid input data"
    /\ ~BreaksSchema(req[2].body)
    /\ req[2].error = "Invalid webhook URL"

\* C20: the data of every job, in every state of the job, satisfies the
\* request invariants (positive sizes and framerate, 0 < duration <= 60,
\* -100 <= zoom <= 100, non-empty alphanumeric record_id, http/https URLs on
\* allowed hosts); a request that breaks one of them is answered with 400 and
\* has no job.
C20_JobsSatisfyRequestInvariants ==
    /\ \A j \in JobIds :
         LET d == jobs[j].data IN
         /\ d.output_width > 0 /\ d.output_height > 0 /\ d.framerate > 0
         /\ d.duration > 0 /\ d.duration <= 60
         /\ d.zoom >= -100 /\ d.zoom <= 100
         /\ Len(d.record_id) > 0
         /\ \A i \in 1..Len(d.record_id) : d.record_id[i] \notin {" ", "!"}
         /\ ~Disallowed(d.input_url)
         /\ d.webhook_url.present => ~Disallowed(d.webhook_url)
    /\ \A r \in Requests :
         LET b == req[r].body IN
         (/\ req[r].pc # "new"
          /\ \/ BreaksSchema(b)
             \/ Disallowed(b.input_url)
             \/ b.webhook_url.present /\ Disallowed(b.webhook_url)) =>
           /\ req[r].pc = "done" /\ req[r].status = 400
           /\ \A j \in JobIds : jobs[j].origin # r

C20_Witness ==
    /\ req[1].body.zoom = 150
    /\ req[1].status = 400
    /\ \E j \in JobIds :
         /\ jobs[j].origin = 2
         /\ jobs[j].data.webhook_url.present
         /\ jobs[j].state = "completed"

\* C21: every 200 response carries the dimensions probed for the request's
\* source file, the request's output dimensions and record_id, and the file
\* name of the output path of the job enqueued for the request.
C21_ResponseEchoesProbeAndRequest ==
    \A r \in Requests :
        req[r].status = 200 =>
          /\ Len(req[r].payload) = 1
          /\ req[r].probe = "ok"
          /\ LET p == req[r].payload[1]
                 d == jobs[req[r].jobId].data
             IN  /\ <<p.input_width, p.input_height>> \in ProbeDims
                 /\ p.input_width = req[r].inputWidth
                 /\ p.input_height = req[r].inputHeight
                 /\ p.input_width = d.input_width
                 /\ p.input_height = d.input_height
                 /\ p.output_width = req[r].body.output_width
                 /\ p.output_height = req[r].body.output_height
                 /\ p.record_id = req[r].body.record_id
                 /\ d.output_file = <<moviesDir, p.filename>>
                 /\ jobs[req[r].jobId].origin = r

C21_Witness ==
    \E r \in Requests :
        /\ req[r].status = 200
        /\ req[r].payload[1].input_width = 3
        /\ req[r].payload[1].input_height = 2
        /\ req[r].payload[1].filename = 2
        /\ jobs[req[r].jobId].state = "failed"

\* the texts with which the checks at the head of the handler answer
ValidationErrors == {"Invalid input data", "Invalid input URL", "Invalid webhook URL"}

\* what validation said about request r: the text, or "" for a pass
Verdict(r) == IF req[r].error \in ValidationErrors THEN req[r].error ELSE ""

C23_JobsHaveDisjointPaths ==
    \A j, k \in JobIds :
        j # k =>
          /\ jobs[j].data.cached_input_file # jobs[k].data.cached_input_file
          /\ jobs[j].data.output_file # jobs[k].data.output_file

\* C24 as stated: the key under which a job is in the queue is the output
\* filename generated for its request.
C24_KeyIsOutputFilename ==
    \A j \in JobIds : jobs[j].key = NameText(req[jobs[j].origin].filename)

\* C24: the key under which a job is in the queue is the next value of the
\* queue's own id counter; the generated output filename is part of the job
\* data only, and two jobs with the same output filename are two jobs with
\* two keys.
C24_KeyIsQueueCounter ==
    /\ \A j \in JobIds :
         /\ jobs[j].key = toString(j)
         /\ jobs[j].key # NameText(req[jobs[j].origin].filename)
         /\ jobs[j].data.output_file = <<moviesDir, req[jobs[j].origin].filename>>
    /\ \A j, k \in JobIds : j # k => jobs[j].key # jobs[k].key

C24_Witness ==
    \E j, k \in JobIds :
        /\ j # k
        /\ jobs[j].data.output_file = jobs[k].data.output_file
        /\ jobs[j].key = <<"1">>
        /\ jobs[k].key = <<"2">>

\* C25: every request is answered exactly once, with 200, 400 or 500: a
\* request that is received and not yet answered still has a step of its
\* handler to come (also after the download stream failed or stalled), no
\* request is answered twice, and a 200 is sent only after the job was added.
C25_EveryRequestAnswered ==
    \A r \in Requests :
        /\ req[r].responses <= 1
        /\ req[r].pc = "done" =>
             req[r].responses = 1 /\ req[r].status \in {200, 400, 500}
        /\ req[r].status = 200 =>
             req[r].jobId \in JobIds /\ jobs[req[r].jobId].origin = r
        /\ req[r].pc \notin {"new", "done"} => ENABLED Intake(r)

\* the name of the cached source file of job j
CachedName(j) == jobs[j].data.cached_input_file[2]

C27_AtMostThreeRunsOneDelivery ==
    /\ [](\A j \in JobIds :
            /\ jobs[j].encoderStarts <= 3
            /\ jobs[j].encoderStarts <= jobs[j].handlerRuns
            /\ jobs[j].webhookOks <= 1
            /\ jobs[j].webhookOks <= jobs[j].encoderStarts
            /\ jobs[j].webhookOks = 1 =>
                 \/ Running = j /\ worker.pc \in {"posted", "cleanup"}
                                /\ worker.webhook = "ok"
                 \/ jobs[j].state = "completed"
            /\ jobs[j].state = "completed" =>
                 Running # j /\ \A i \in 1..Len(wait) : wait[i] # j)
    /\ [][/\ worker'.pc = "ffmpeg" /\ worker.pc # "ffmpeg" =>
               /\ worker.pc = "start"
               /\ jobs'[Running].encoderStarts = jobs[Running].encoderStarts + 1
          /\ worker'.pc = "closed" => worker.pc \in {"ffmpeg", "closed"}
          /\ worker'.pc = "webhook" => worker.pc \in {"closed", "webhook"}
          /\ worker'.pc = "posted" => worker.pc \in {"webhook", "posted"}
          /\ worker.pc = "posted" /\ worker.webhook = "ok" /\ Moves =>
               worker'.pc = "cleanup"
          /\ \A j \in JobIds :
               /\ jobs'[j].encoderStarts # jobs[j].encoderStarts =>
                    Running = j /\ worker.pc = "start"
               /\ jobs[j].state = "completed" => jobs'[j] = jobs[j]]_vars

C27_Witness ==
    \E j \in JobIds :
        /\ jobs[j].state = "completed"
        /\ jobs[j].encoderStarts = 3
        /\ jobs[j].attemptsMade = 2
        /\ jobs[j].webhookOks = 1

\* one of the four dimensions of job j is not positive
BadDims(j) ==
    \/ jobs[j].data.input_width <= 0 \/ jobs[j].data.input_height <= 0
    \/ jobs[j].data.output_width <= 0 \/ jobs[j].data.output_height <= 0

C29_CropInsideInput ==
    fpc = "spawned" =>
        /\ fdata.input_width > 0 /\ fdata.input_height > 0
        /\ fdata.output_width > 0 /\ fdata.output_height > 0
        /\ \A c \in StagesOf({"crop"}) :
             /\ Chain[c].x >= 0 /\ Chain[c].y >= 0
             /\ Chain[c].w >= 1 /\ Chain[c].h >= 1
             /\ Chain[c].x + Chain[c].w <= fdata.input_width
             /\ Chain[c].y + Chain[c].h <= fdata.input_height

C29_Witness ==
    /\ fpc = "spawned"
    /\ fdata.input_width = 3 /\ fdata.output_width = 400
    /\ fdata.input_height = 800 /\ fdata.output_height = 3
    /\ \E c \in StagesOf({"crop"}) :
         /\ Chain[c].w = 3 /\ Chain[c].x = 0
         /\ Chain[c].h = 3 /\ Chain[c].y = 398

=============================================================================
